---- MODULE Spec2Model ----
(***************************************************************************)
(* Orders service of microservices-node-lesson                             *)
(* (src/services/orders-service/src/app.js): the consume callback that     *)
(* fills userCache from registry events, the circuit breaker around the    *)
(* live user check, and the order create / cancel handlers with their      *)
(* event publication.  Handlers are split at their await points; every     *)
(* synchronous stretch of code is one action.                              *)
(***************************************************************************)
EXTENDS Integers, Sequences, FiniteSets, TLC

(***************************************************************************)
(* Bounds of the explored environment.                                     *)
(***************************************************************************)
MaxMsgs == 2        \* messages the broker ever places on the queue
MaxRequests == 3    \* HTTP requests ever accepted
MaxAdmissions == 2  \* of them, while the admission of orders is explored
MaxClock == 1       \* ticks of the wall clock (new Date())
MaxInflight == 1    \* requests in flight at the same time
MaxCallers == 2     \* of them, while the breaker is explored
MaxUserRequests == 2  \* HTTP requests the users service ever accepts
MaxUserInflight == 2  \* of them, in flight at the same time

(***************************************************************************)
(* Program constants.                                                      *)
(***************************************************************************)
ROUTING_KEY_USER_CREATED == "user.created"
ROUTING_KEY_USER_UPDATED == "user.updated"
ORDER_CREATED == "order.created"
ORDER_CANCELLED == "order.cancelled"
USER_CREATED == "user.created"
USER_UPDATED == "user.updated"
errorThresholdPercentage == 50
HTTP_TIMEOUT_MS == 2000
resetTimeout == 10000
\* circuitBreakerOptions sets no volumeThreshold: opossum's default applies.
volumeThreshold == 0

(***************************************************************************)
(* Message payloads (msg.content.toString()) and JSON.parse.               *)
(***************************************************************************)
Undefined == "undefined"

AnaJson == "{\"id\":\"u1\",\"name\":\"Ana\"}"
BobJson == "{\"id\":\"u1\",\"name\":\"Bob\"}"
EmptyObjJson == "{}"
NullJson == "null"
BadJson == "{\"id\":"

Contents == {AnaJson, BobJson, EmptyObjJson, NullJson, BadJson}

RoutingKeys == {ROUTING_KEY_USER_CREATED, ROUTING_KEY_USER_UPDATED, ORDER_CREATED}

UserIds == {"u1", "u2"}

\* JSON.parse(text): ok = FALSE is a SyntaxError; otherwise the value.
\* A missing property reads as undefined.
JSONparse(text) ==
    CASE text = AnaJson -> [ok |-> TRUE, type |-> "object", id |-> "u1", name |-> "Ana"]
      [] text = BobJson -> [ok |-> TRUE, type |-> "object", id |-> "u1", name |-> "Bob"]
      [] text = EmptyObjJson -> [ok |-> TRUE, type |-> "object", id |-> Undefined, name |-> Undefined]
      [] text = NullJson -> [ok |-> TRUE, type |-> "null", id |-> Undefined, name |-> Undefined]
      [] OTHER -> [ok |-> FALSE, type |-> "SyntaxError", id |-> Undefined, name |-> Undefined]

VARIABLES
    amqp,         \* "null" until createChannel resolved, then "connected"
    consuming,    \* TRUE once amqp.ch.consume registered the callback
    queue,        \* broker side of QUEUE: messages not yet settled, in order
    nextTag,      \* delivery tag of the next message placed on the queue
    deliveries,   \* per delivery tag: the message and how the callback settled it
    settles,      \* history: per delivery tag, the ack and nack calls made for it
    userCache,    \* Map: user id -> cached user object
    lastApplied,  \* history: per user id, content of the last event applied
    breaker,      \* the opossum breaker around fetchUserAction
    orders,       \* rows of the order table (prisma.order), by id
    published,    \* events this service handed to amqp.ch.publish, in order
    reqs,         \* the HTTP requests in flight, per slot
    nreq,         \* number of requests accepted so far
    clock,        \* wall clock read by new Date()
    usersDb,      \* users service: rows of the user table (prisma.user), by id
    usersAmqp,    \* users service: "null" until createChannel resolved
    userEvents,   \* users service: events handed to amqp.ch.publish, in order
    ureqs,        \* users service: the HTTP requests in flight, per slot
    nureq         \* users service: number of requests accepted so far

brokerVars == <<queue, nextTag, deliveries, settles>>
consumerVars == <<amqp, consuming, queue, nextTag, deliveries, settles, userCache, lastApplied>>
orderVars == <<breaker, orders, published, reqs, nreq, clock>>
usersVars == <<usersDb, usersAmqp, userEvents, ureqs, nureq>>
vars == <<amqp, consuming, queue, nextTag, deliveries, settles, userCache, lastApplied,
          breaker, orders, published, reqs, nreq, clock,
          usersDb, usersAmqp, userEvents, ureqs, nureq>>

Tags == 1..MaxMsgs
Slots == 1..MaxInflight
Callers == 1..MaxCallers
UserSlots == 1..MaxUserInflight

(***************************************************************************)
(* userCache (a Map).                                                      *)
(***************************************************************************)
MapHas(map, key) == key \in DOMAIN map

\* A cache of one entry: a set drops every other key.
MapSet_Replace(map, key, value) == [k \in {key} |-> value]

\* A set that keeps an entry the map already has.
MapSet_KeepExisting(map, key, value) ==
    [k \in (DOMAIN map) \cup {key} |-> IF k \in DOMAIN map THEN map[k] ELSE value]

MapSet(map, key, value) ==
    [k \in (DOMAIN map) \cup {key} |-> IF k = key THEN value ELSE map[k]]

(***************************************************************************)
(* The consume callback.                                                   *)
(***************************************************************************)
\* The object JSON.parse returned, as the cache stores it.
UserObject(user) == [id |-> user.id, name |-> user.name]

\* A callback that caches the payload whatever the routing key.
IsUserEvent_Any(eventType) == TRUE

\* A callback that knows the user-created event only.
IsUserEvent_CreatedOnly(eventType) == eventType = ROUTING_KEY_USER_CREATED

\* The condition of the if on the routing key.
IsUserEvent(eventType) ==
    eventType = ROUTING_KEY_USER_CREATED \/ eventType = ROUTING_KEY_USER_UPDATED

\* What the try block does to the cache and whether it throws.
\* JSON.parse throws on a malformed payload; reading user.id of null throws
\* a TypeError, and only when the if branch is taken.
ConsumeTry(cache, msg) ==
    LET user == JSONparse(msg.content) IN
    IF ~user.ok THEN [threw |-> TRUE, cache |-> cache]
    ELSE IF IsUserEvent(msg.routingKey)
         THEN IF user.type = "null" THEN [threw |-> TRUE, cache |-> cache]
              ELSE [threw |-> FALSE, cache |-> MapSet(cache, user.id, UserObject(user))]
         ELSE [threw |-> FALSE, cache |-> cache]

\* A catch block that requeues: nack(msg, false, true).
NackRequeue_True == TRUE

\* The requeue argument of amqp.ch.nack(msg, false, false) in the catch block.
NackRequeue == FALSE

\* A callback that acknowledges in a finally block.
SettleCalls_AckInFinally(threw) ==
    [acks |-> 1, nacks |-> IF threw THEN 1 ELSE 0]

\* The calls of amqp.ch.ack and amqp.ch.nack on one run of the callback:
\* ack is the last statement of the try block, nack the only one of the
\* catch block.
SettleCalls(threw) ==
    [acks |-> IF threw THEN 0 ELSE 1, nacks |-> IF threw THEN 1 ELSE 0]

\* Settlement of a message by the callback.
Settlement(threw) ==
    IF threw THEN (IF NackRequeue THEN "nack_requeue" ELSE "nack_discard")
    ELSE "ack"

\* The broker's reaction: ack and nack without requeue remove the message,
\* nack with requeue puts it back at the end of the queue.
BrokerSettle(q, how) ==
    IF how = "nack_requeue" THEN Append(Tail(q), Head(q)) ELSE Tail(q)

(***************************************************************************)
(* Request bodies.                                                         *)
(***************************************************************************)
OrderIds == {"o_1", "o_2"}

\* userId of the body: "" stands for a missing (falsy) userId.
UserIdInputs == UserIds \cup {""}

ItemsInputs == {[type |-> "array", elems |-> <<"sku_a">>],
                [type |-> "string", elems |-> <<>>]}

TotalInputs == {[type |-> "number", num |-> 150],
                [type |-> "number", num |-> -1],
                [type |-> "string", num |-> 0]}

\* The body of the tests: items [{sku}], total 150.
ValidItems == [type |-> "array", elems |-> <<"sku_a">>]
ValidTotal == [type |-> "number", num |-> 150]

\* A guard that does not check items.
InvalidBody_NoItemsCheck(userId, items, total) ==
    userId = "" \/ total.type # "number"

\* The guard of the 400 response.
InvalidBody(userId, items, total) ==
    userId = "" \/ items.type # "array" \/ total.type # "number"

\* JSON.stringify(items), the value of the items column.
JSONstringifyItems(elems) ==
    IF elems = <<>> THEN "[]" ELSE "[\"sku_a\"]"

(***************************************************************************)
(* The circuit breaker (opossum, errorThresholdPercentage 50, no volume    *)
(* threshold, resetTimeout 10 s).  fires, successes and failures are the   *)
(* counts of its rolling window.                                           *)
(***************************************************************************)
\* A breaker that never short-circuits.
BreakerRejects_Never(b) == FALSE

\* fire() short-circuits unless the breaker is closed or a half-open probe
\* is pending.
BreakerRejects(b) == b.state # "closed" /\ ~b.pendingClose

\* A fire() that leaves the half-open breaker waiting for its probe.
BreakerFire_KeepsProbe(b) == [b EXCEPT !.fires = @ + 1]

\* fire() counts the call and, when it lets it through, consumes the probe.
BreakerFire(b) ==
    IF BreakerRejects(b) THEN [b EXCEPT !.fires = @ + 1]
    ELSE [b EXCEPT !.fires = @ + 1, !.pendingClose = FALSE]

\* A breaker that does not close on the success of its probe.
BreakerSuccess_NoClose(b) == [b EXCEPT !.successes = @ + 1]

\* The wrapped call resolved.
BreakerSuccess(b) ==
    LET counted == [b EXCEPT !.successes = @ + 1] IN
    IF counted.state = "halfOpen"
    THEN [counted EXCEPT !.state = "closed", !.pendingClose = FALSE]
    ELSE counted

\* The wrapped call rejected or timed out: the breaker opens on a failed
\* probe, or when the window holds at least volumeThreshold calls and its
\* error rate exceeds the threshold.
BreakerFailure(b) ==
    LET counted == [b EXCEPT !.failures = @ + 1] IN
    IF counted.state # "halfOpen" /\ counted.fires < volumeThreshold THEN counted
    ELSE IF counted.state = "halfOpen"
            \/ counted.failures * 100 > errorThresholdPercentage * counted.fires
    THEN [counted EXCEPT !.state = "open", !.pendingClose = FALSE]
    ELSE counted

\* A breaker that records the completion of a call it had timed out.
LateSettle_Applied(b, outcome) ==
    IF outcome = "ok" THEN BreakerSuccess(b) ELSE BreakerFailure(b)

\* The wrapped call completes after the breaker timed it out: the breaker
\* has already settled the call and ignores the completion.
LateSettle(b, outcome) == b

\* A fetchUserAction that goes through fetchWithRetry (retries = 3).
FetchAttempts_Retry(outcome) == IF outcome = "ok" THEN 1 ELSE 3

\* fetchUserAction calls fetchWithTimeout once, whatever comes of it.
FetchAttempts(outcome) == 1

(***************************************************************************)
(* Admission: the try/catch around breaker.fire in app.post('/').          *)
(***************************************************************************)
\* A handler with no cache fallback: every failed check is rejected.
Admit_NoFallback(fire, cache, userId) == fire = "ok"

\* A handler whose catch block never returns: every request is admitted.
Admit_Always(fire, cache, userId) == TRUE

\* A catch block that consults the cache only when the breaker was open.
Admit_OnlyWhenOpen(fire, cache, userId) ==
    fire = "ok" \/ (fire = "CIRCUIT_OPEN" /\ MapHas(cache, userId))

\* fire: "ok" when breaker.fire resolved, otherwise the failure.
Admit(fire, cache, userId) ==
    IF fire = "ok" THEN TRUE ELSE MapHas(cache, userId)

IdleReq ==
    [pc |-> "idle", op |-> "none", userId |-> "", items |-> "", total |-> 0,
     id |-> "", fire |-> "none", cacheHit |-> FALSE, db |-> "none",
     status |-> 0, pub |-> "none",
     calls |-> 0,            \* history: requests sent to the registry
     breakerWas |-> "none",  \* history: state of the breaker on arrival
     before |-> FALSE,       \* history: the cache held the user on arrival
     late |-> FALSE]         \* the timed-out fetch has not completed yet

\* A request of the users service.
IdleUserReq ==
    [pc |-> "idle", op |-> "none", n |-> 0, id |-> "", name |-> "", email |-> "",
     db |-> "none", status |-> 0, pub |-> "none"]

NoDelivery == [content |-> "", routingKey |-> "", outcome |-> "none"]

Init ==
    /\ amqp = "null"
    /\ consuming = FALSE
    /\ queue = <<>>
    /\ nextTag = 1
    /\ deliveries = [t \in Tags |-> NoDelivery]
    /\ settles = [t \in Tags |-> [acks |-> 0, nacks |-> 0]]
    /\ userCache = <<>>
    /\ lastApplied = [u \in UserIds \cup {Undefined} |-> "none"]
    /\ breaker = [state |-> "closed", pendingClose |-> FALSE,
                  fires |-> 0, successes |-> 0, failures |-> 0]
    /\ orders = <<>>
    /\ published = <<>>
    /\ reqs = [s \in Slots \cup Callers |-> IdleReq]
    /\ nreq = 0
    /\ clock = 0
    /\ usersDb = <<>>
    /\ usersAmqp = "null"
    /\ userEvents = <<>>
    /\ ureqs = [s \in UserSlots |-> IdleUserReq]
    /\ nureq = 0

\* createChannel resolves; assertQueue/bindQueue/consume then either all
\* succeed (the callback is registered) or one throws (no consumer).
AmqpConnect(consumerOk) ==
    /\ amqp = "null"
    /\ amqp' = "connected"
    /\ consuming' = consumerOk
    /\ UNCHANGED <<usersVars, brokerVars, userCache, lastApplied, orderVars>>

\* The broker routes a message to the durable queue.
Deliver(content, routingKey) ==
    /\ nextTag <= MaxMsgs
    /\ queue' = Append(queue, [tag |-> nextTag, content |-> content, routingKey |-> routingKey])
    /\ nextTag' = nextTag + 1
    /\ deliveries' = [deliveries EXCEPT ![nextTag] =
          [content |-> content, routingKey |-> routingKey, outcome |-> "none"]]
    /\ UNCHANGED <<usersVars, amqp, consuming, settles, userCache, lastApplied, orderVars>>

\* The consume callback runs on the message at the head of the queue.
Consume ==
    /\ consuming
    /\ queue # <<>>
    /\ LET msg == Head(queue)
           r == ConsumeTry(userCache, msg)
           how == Settlement(r.threw)
           user == JSONparse(msg.content)
       IN /\ userCache' = r.cache
          /\ deliveries' = [deliveries EXCEPT ![msg.tag].outcome = how]
          /\ settles' = [settles EXCEPT ![msg.tag] =
                [acks |-> @.acks + SettleCalls(r.threw).acks,
                 nacks |-> @.nacks + SettleCalls(r.threw).nacks]]
          /\ queue' = BrokerSettle(queue, how)
          /\ lastApplied' =
                IF how = "ack" /\ IsUserEvent(msg.routingKey)
                THEN [lastApplied EXCEPT ![user.id] = msg.content]
                ELSE lastApplied
    /\ UNCHANGED <<usersVars, amqp, consuming, nextTag, orderVars>>

(***************************************************************************)
(* Publication: the inner try around amqp.ch.publish.  The event is handed *)
(* to the channel when amqp?.ch is set and publish does not throw; a throw *)
(* is caught and logged.                                                   *)
(***************************************************************************)
Publish(log, channel, publishOk, event) ==
    IF channel = "connected" /\ publishOk THEN Append(log, event) ELSE log

PublishOutcome(channel, publishOk) ==
    IF channel # "connected" THEN "no_channel"
    ELSE IF publishOk THEN "sent" ELSE "threw"

\* A handler without the inner try/catch: a publish error reaches the outer
\* catch and the request is answered 500.
ReplyAfterPublish_Propagates(success, outcome) ==
    IF outcome = "threw" THEN 500 ELSE success

\* The status of the response sent after the inner try/catch: the catch
\* swallows a publish error, so the outcome of the publication is not used.
ReplyAfterPublish(success, outcome) == success

\* A slot takes a new request when it holds none or a finished one.
Free(s) == reqs[s].pc \in {"idle", "done"} /\ nreq < MaxRequests

\* The response ends the request: the slot keeps what the handler answered
\* and what it observed (fire, cacheHit, pub), not the request body.
Respond(r, status) ==
    [IdleReq EXCEPT !.pc = "done", !.op = r.op, !.id = r.id, !.fire = r.fire,
                    !.cacheHit = r.cacheHit, !.db = r.db, !.pub = r.pub,
                    !.calls = r.calls, !.breakerWas = r.breakerWas,
                    !.before = r.before,
                    !.late = r.late, !.status = status]

\* A handler that looks the user up in a copy of the cache taken when the
\* module was loaded.
AfterVerdict_StaleCopy(r, fire, cache, id) ==
    LET seen == [r EXCEPT !.fire = fire, !.cacheHit = FALSE] IN
    IF fire = "ok" THEN [seen EXCEPT !.pc = "create", !.id = id]
    ELSE Respond(seen, 503)

\* After the verdict: reject with 503, or generate the id and call
\* prisma.order.create.
AfterVerdict(r, fire, cache, id) ==
    LET seen == [r EXCEPT !.fire = fire, !.cacheHit = MapHas(cache, r.userId)] IN
    IF Admit(fire, cache, r.userId)
    THEN [seen EXCEPT !.pc = "create", !.id = id]
    ELSE Respond(seen, 503)

\* app.post('/'): validation of the body, then breaker.fire(userId).  An
\* open breaker rejects at once (the fallback throws CIRCUIT_OPEN) and the
\* catch block runs before any other callback.
PostOrder(s, userId, items, total, id) ==
    /\ Free(s)
    /\ nreq' = nreq + 1
    /\ LET r == [IdleReq EXCEPT !.op = "create"] IN
       IF InvalidBody(userId, items, total)
       THEN /\ reqs' = [reqs EXCEPT ![s] = Respond(r, 400)]
            /\ UNCHANGED breaker
       ELSE LET v == [r EXCEPT !.userId = userId,
                               !.items = JSONstringifyItems(items.elems),
                               !.total = total.num,
                               !.breakerWas = breaker.state,
                               !.before = MapHas(userCache, userId)] IN
            /\ breaker' = BreakerFire(breaker)
            /\ reqs' = [reqs EXCEPT ![s] =
                  IF BreakerRejects(breaker)
                  THEN AfterVerdict(v, "CIRCUIT_OPEN", userCache, id)
                  ELSE [v EXCEPT !.pc = "fire", !.calls = 1]]
    /\ UNCHANGED <<usersVars, consumerVars, orders, published, clock>>

\* A handler that caches the user when the live check succeeded.
FireSettle_CachesUser(s, outcome, id) ==
    /\ reqs[s].pc = "fire"
    /\ breaker' = IF outcome = "ok" THEN BreakerSuccess(breaker) ELSE BreakerFailure(breaker)
    /\ reqs' = [reqs EXCEPT ![s] =
          AfterVerdict([reqs[s] EXCEPT !.calls = FetchAttempts(outcome),
                                       !.late = (outcome = "timeout")],
                       outcome, userCache, id)]
    /\ userCache' = IF outcome = "ok"
                    THEN MapSet(userCache, reqs[s].userId,
                                [id |-> reqs[s].userId, name |-> Undefined])
                    ELSE userCache
    /\ UNCHANGED <<usersVars, amqp, consuming, brokerVars, lastApplied,
                   orders, published, nreq, clock>>

\* fetchUserAction settles: the registry answered 2xx ("ok"), answered
\* non-2xx or the connection failed ("upstream"), or the call timed out.
FireSettle(s, outcome, id) ==
    /\ reqs[s].pc = "fire"
    /\ breaker' = IF outcome = "ok" THEN BreakerSuccess(breaker) ELSE BreakerFailure(breaker)
    /\ reqs' = [reqs EXCEPT ![s] =
          AfterVerdict([reqs[s] EXCEPT !.calls = FetchAttempts(outcome),
                                       !.late = (outcome = "timeout")],
                       outcome, userCache, id)]
    /\ UNCHANGED <<usersVars, consumerVars, orders, published, nreq, clock>>

\* The fetch of a call the breaker timed out completes (fetchWithTimeout
\* resolves, or rejects when its own timer aborts it).
LateCompletion(s, outcome) ==
    /\ reqs[s].late
    /\ breaker' = LateSettle(breaker, outcome)
    /\ reqs' = [reqs EXCEPT ![s].late = FALSE]
    /\ UNCHANGED <<usersVars, consumerVars, orders, published, nreq, clock>>

\* The row prisma.order.create inserts; orderData carries no updatedAt, so
\* the column holds the value of insertion, written -1 (before any clock).
OrderRow(r) ==
    [userId |-> r.userId, items |-> r.items, total |-> r.total,
     status |-> "created", updatedAt |-> -1]

\* A handler that goes on to publish although create rejected.
DbCreate_Unchecked(s, dbOk) ==
    /\ reqs[s].pc = "create"
    /\ orders' = IF dbOk /\ reqs[s].id \notin DOMAIN orders
                 THEN MapSet(orders, reqs[s].id, OrderRow(reqs[s]))
                 ELSE orders
    /\ reqs' = [reqs EXCEPT ![s].pc = "created"]
    /\ UNCHANGED <<usersVars, consumerVars, breaker, published, nreq, clock>>

\* A handler whose catch block answers 201.
DbCreate_FaultAnswers201(s, dbOk) ==
    /\ reqs[s].pc = "create"
    /\ IF dbOk /\ reqs[s].id \notin DOMAIN orders
       THEN /\ orders' = MapSet(orders, reqs[s].id, OrderRow(reqs[s]))
            /\ reqs' = [reqs EXCEPT ![s].pc = "created"]
       ELSE /\ orders' = orders
            /\ reqs' = [reqs EXCEPT ![s] = Respond([reqs[s] EXCEPT !.db = "fault"], 201)]
    /\ UNCHANGED <<usersVars, consumerVars, breaker, published, nreq, clock>>

\* prisma.order.create executes: the row is inserted, or the call rejects
\* (duplicate id, or a fault of the database) and the handler answers 500.
DbCreate(s, dbOk) ==
    /\ reqs[s].pc = "create"
    /\ IF dbOk /\ reqs[s].id \notin DOMAIN orders
       THEN /\ orders' = MapSet(orders, reqs[s].id, OrderRow(reqs[s]))
            /\ reqs' = [reqs EXCEPT ![s].pc = "created"]
       ELSE /\ orders' = orders
            /\ reqs' = [reqs EXCEPT ![s] = Respond([reqs[s] EXCEPT !.db = "fault"], 500)]
    /\ UNCHANGED <<usersVars, consumerVars, breaker, published, nreq, clock>>

\* The handler resumes after create: publish order.created, answer 201.
CreateResume(s, publishOk) ==
    /\ reqs[s].pc = "created"
    /\ published' = Publish(published, amqp, publishOk,
          [routingKey |-> ORDER_CREATED, orderId |-> reqs[s].id, status |-> "created"])
    /\ reqs' = [reqs EXCEPT ![s] =
          Respond([reqs[s] EXCEPT !.pub = PublishOutcome(amqp, publishOk)],
                  ReplyAfterPublish(201, PublishOutcome(amqp, publishOk)))]
    /\ UNCHANGED <<usersVars, consumerVars, breaker, orders, nreq, clock>>

\* A catch block that does not recognise P2025.
ErrorStatus_WrongCode(code) == 500

\* The catch block of the cancel handler: P2025 is 404, anything else 500.
ErrorStatus(code) == IF code = "P2025" THEN 404 ELSE 500

\* The data of prisma.order.update in the cancel handler.
CancelRow(row, now) == [row EXCEPT !.status = "cancelled", !.updatedAt = now]

\* app.post('/orders/:id/cancel') up to the end of prisma.order.update:
\* the row is updated, or the call rejects with P2025 (no such row, 404) or
\* with another fault (500).
CancelOrder(s, id, dbOk) ==
    /\ Free(s)
    /\ nreq' = nreq + 1
    /\ LET r == [IdleReq EXCEPT !.op = "cancel", !.id = id] IN
       IF ~dbOk
       THEN /\ reqs' = [reqs EXCEPT ![s] =
                  Respond([r EXCEPT !.db = "fault"], ErrorStatus("fault"))]
            /\ orders' = orders
       ELSE IF id \notin DOMAIN orders
       THEN /\ reqs' = [reqs EXCEPT ![s] =
                  Respond([r EXCEPT !.db = "P2025"], ErrorStatus("P2025"))]
            /\ orders' = orders
       ELSE /\ reqs' = [reqs EXCEPT ![s] = [r EXCEPT !.pc = "updated"]]
            /\ orders' = [orders EXCEPT ![id] = CancelRow(@, clock)]
    /\ UNCHANGED <<usersVars, consumerVars, breaker, published, clock>>

\* The handler resumes after update: publish order.cancelled, answer 200.
CancelResume(s, publishOk) ==
    /\ reqs[s].pc = "updated"
    /\ published' = Publish(published, amqp, publishOk,
          [routingKey |-> ORDER_CANCELLED, orderId |-> reqs[s].id, status |-> "cancelled"])
    /\ reqs' = [reqs EXCEPT ![s] =
          Respond([reqs[s] EXCEPT !.pub = PublishOutcome(amqp, publishOk)],
                  ReplyAfterPublish(200, PublishOutcome(amqp, publishOk)))]
    /\ UNCHANGED <<usersVars, consumerVars, breaker, orders, nreq, clock>>

\* app.get('/') up to prisma.order.findMany.
ListOrders(s) ==
    /\ Free(s)
    /\ nreq' = nreq + 1
    /\ reqs' = [reqs EXCEPT ![s] = [IdleReq EXCEPT !.op = "list", !.pc = "list"]]
    /\ UNCHANGED <<usersVars, consumerVars, breaker, orders, published, clock>>

\* findMany settles: the rows are answered (200), or the catch answers 500.
ListResume(s, dbOk) ==
    /\ reqs[s].pc = "list"
    /\ reqs' = [reqs EXCEPT ![s] =
          IF dbOk THEN Respond(reqs[s], 200)
          ELSE Respond([reqs[s] EXCEPT !.db = "fault"], 500)]
    /\ UNCHANGED <<usersVars, consumerVars, breaker, orders, published, nreq, clock>>

\* app.get('/health').
Health(s) ==
    /\ Free(s)
    /\ nreq' = nreq + 1
    /\ reqs' = [reqs EXCEPT ![s] = Respond([IdleReq EXCEPT !.op = "health"], 200)]
    /\ UNCHANGED <<usersVars, consumerVars, breaker, orders, published, clock>>

\* A breaker whose reset timer is never armed.
ResetTimeout_NotArmed ==
    /\ FALSE
    /\ UNCHANGED vars

\* resetTimeout elapsed: the open breaker becomes half-open.  A call that
\* was let through before the breaker opened has settled by then, the
\* timeout of a call being shorter than resetTimeout.
ResetTimeout ==
    /\ breaker.state = "open"
    /\ HTTP_TIMEOUT_MS < resetTimeout => \A s \in DOMAIN reqs : reqs[s].pc # "fire"
    /\ breaker' = [breaker EXCEPT !.state = "halfOpen", !.pendingClose = TRUE]
    /\ UNCHANGED <<usersVars, consumerVars, orders, published, reqs, nreq, clock>>

\* The rolling window of the breaker's statistics moved past its calls.
WindowRoll ==
    /\ breaker.fires > 0
    /\ breaker' = [breaker EXCEPT !.fires = 0, !.successes = 0, !.failures = 0]
    /\ UNCHANGED <<usersVars, consumerVars, orders, published, reqs, nreq, clock>>

\* Time passes.
Tick ==
    /\ clock < MaxClock
    /\ clock' = clock + 1
    /\ UNCHANGED <<usersVars, consumerVars, breaker, orders, published, reqs, nreq>>

FireOutcomes == {"ok", "upstream", "timeout"}

(***************************************************************************)
(* The users service (the registry): app.post('/') and app.put('/:id').    *)
(***************************************************************************)
Emails == {"ana@example.com", "bob@example.com"}

\* name and email of a body: "" stands for a missing (falsy) property.
NameInputs == {"Ana", ""}
EmailInputs == Emails \cup {""}

\* The guard of the 400 response.
UserInvalidBody(name, email) == name = "" \/ email = ""

\* The unique constraint of the user table on email: no row other than
\* row id (none, for an insertion) holds it.
EmailFree(db, id, email) == \A k \in DOMAIN db \ {id} : db[k].email # email

\* A catch block without the P2002 branch.
UserErrorStatus_NoConflict(code) == IF code = "P2025" THEN 404 ELSE 500

\* The catch blocks of the users service: P2025 is 404 (update only),
\* P2002 is 409, anything else 500.
UserErrorStatus(code) ==
    IF code = "P2025" THEN 404 ELSE IF code = "P2002" THEN 409 ELSE 500

UserFree(s) == ureqs[s].pc \in {"idle", "done"} /\ nureq < MaxUserRequests

\* The response ends the request; the slot keeps what the request asked
\* and what the handler answered.
UserRespond(r, status) == [r EXCEPT !.pc = "done", !.status = status]

\* createChannel of the users service resolves.
UsersAmqpConnect ==
    /\ usersAmqp = "null"
    /\ usersAmqp' = "connected"
    /\ UNCHANGED <<consumerVars, orderVars, usersDb, userEvents, ureqs, nureq>>

\* app.post('/') up to the end of prisma.user.create: the row is inserted
\* under an id the database generates, or the call rejects with P2002 (the
\* email is taken) or with another fault.
UserPost(s, name, email, id, dbOk) ==
    /\ UserFree(s)
    /\ nureq' = nureq + 1
    /\ LET r == [IdleUserReq EXCEPT !.op = "post", !.n = nureq + 1,
                                    !.name = name, !.email = email] IN
       IF UserInvalidBody(name, email)
       THEN /\ ureqs' = [ureqs EXCEPT ![s] = UserRespond(r, 400)]
            /\ usersDb' = usersDb
       ELSE IF ~dbOk
       THEN /\ ureqs' = [ureqs EXCEPT ![s] =
                  UserRespond([r EXCEPT !.db = "fault"], UserErrorStatus("fault"))]
            /\ usersDb' = usersDb
       ELSE IF ~EmailFree(usersDb, "", email)
       THEN /\ ureqs' = [ureqs EXCEPT ![s] =
                  UserRespond([r EXCEPT !.db = "P2002"], UserErrorStatus("P2002"))]
            /\ usersDb' = usersDb
       ELSE /\ id \notin DOMAIN usersDb
            /\ ureqs' = [ureqs EXCEPT ![s] = [r EXCEPT !.pc = "created", !.id = id]]
            /\ usersDb' = MapSet(usersDb, id, [name |-> name, email |-> email])
    /\ UNCHANGED <<consumerVars, orderVars, usersAmqp, userEvents>>

\* app.put('/:id') up to the end of prisma.user.update: the row is updated,
\* or the call rejects with P2025 (no such row), with P2002 (the email is
\* taken by another row) or with another fault.
UserPut(s, id, name, email, dbOk) ==
    /\ UserFree(s)
    /\ nureq' = nureq + 1
    /\ LET r == [IdleUserReq EXCEPT !.op = "put", !.n = nureq + 1, !.id = id,
                                    !.name = name, !.email = email] IN
       IF UserInvalidBody(name, email)
       THEN /\ ureqs' = [ureqs EXCEPT ![s] = UserRespond(r, 400)]
            /\ usersDb' = usersDb
       ELSE IF ~dbOk
       THEN /\ ureqs' = [ureqs EXCEPT ![s] =
                  UserRespond([r EXCEPT !.db = "fault"], UserErrorStatus("fault"))]
            /\ usersDb' = usersDb
       ELSE IF id \notin DOMAIN usersDb
       THEN /\ ureqs' = [ureqs EXCEPT ![s] =
                  UserRespond([r EXCEPT !.db = "P2025"], UserErrorStatus("P2025"))]
            /\ usersDb' = usersDb
       ELSE IF ~EmailFree(usersDb, id, email)
       THEN /\ ureqs' = [ureqs EXCEPT ![s] =
                  UserRespond([r EXCEPT !.db = "P2002"], UserErrorStatus("P2002"))]
            /\ usersDb' = usersDb
       ELSE /\ ureqs' = [ureqs EXCEPT ![s] = [r EXCEPT !.pc = "updated"]]
            /\ usersDb' = MapSet(usersDb, id, [name |-> name, email |-> email])
    /\ UNCHANGED <<consumerVars, orderVars, usersAmqp, userEvents>>

\* Either handler resumes after its persistence call: publish the user
\* (user.created with 201, user.updated with 200) and answer.
UserResume(s, publishOk) ==
    /\ ureqs[s].pc \in {"created", "updated"}
    /\ LET r == ureqs[s]
           key == IF r.pc = "created" THEN USER_CREATED ELSE USER_UPDATED
           success == IF r.pc = "created" THEN 201 ELSE 200
       IN /\ userEvents' = Publish(userEvents, usersAmqp, publishOk,
                [routingKey |-> key, id |-> r.id, email |-> r.email])
          /\ ureqs' = [ureqs EXCEPT ![s] =
                UserRespond([r EXCEPT !.pub = PublishOutcome(usersAmqp, publishOk)],
                            ReplyAfterPublish(success, PublishOutcome(usersAmqp, publishOk)))]
    /\ UNCHANGED <<consumerVars, orderVars, usersDb, usersAmqp, nureq>>

\* The orders service with a registry that publishes well-formed events.
Next ==
    \/ \E consumerOk \in BOOLEAN : AmqpConnect(consumerOk)
    \/ Deliver(AnaJson, ROUTING_KEY_USER_CREATED)
    \/ Consume
    \/ \E s \in Slots, userId \in UserIdInputs, items \in ItemsInputs,
          total \in TotalInputs, id \in OrderIds : PostOrder(s, userId, items, total, id)
    \/ \E s \in Slots, outcome \in FireOutcomes, id \in OrderIds : FireSettle(s, outcome, id)
    \/ \E s \in Slots, outcome \in {"ok", "upstream"} : LateCompletion(s, outcome)
    \/ \E s \in Slots, dbOk \in BOOLEAN : DbCreate(s, dbOk)
    \/ \E s \in Slots, publishOk \in BOOLEAN : CreateResume(s, publishOk)
    \/ \E s \in Slots, id \in OrderIds, dbOk \in BOOLEAN : CancelOrder(s, id, dbOk)
    \/ \E s \in Slots, publishOk \in BOOLEAN : CancelResume(s, publishOk)
    \/ \E s \in Slots : ListOrders(s)
    \/ \E s \in Slots, dbOk \in BOOLEAN : ListResume(s, dbOk)
    \/ \E s \in Slots : Health(s)
    \/ ResetTimeout
    \/ WindowRoll
    \/ Tick

Spec == Init /\ [][Next]_vars

\* The consumer alone, with every kind of message on the queue.
NextConsumer ==
    \/ \E consumerOk \in BOOLEAN : AmqpConnect(consumerOk)
    \/ \E content \in Contents, routingKey \in RoutingKeys : Deliver(content, routingKey)
    \/ Consume

SpecConsumer == Init /\ [][NextConsumer]_vars

\* The consumer with the broker handing every queued message to the
\* registered callback.
SpecConsumerFair == SpecConsumer /\ WF_vars(Consume)

\* The cache among the handlers: the consumer with user-created events of
\* two payloads, and every request of the orders service for one well-formed
\* order body.
NextCache ==
    \/ \E consumerOk \in BOOLEAN : AmqpConnect(consumerOk)
    \/ \E content \in {AnaJson, EmptyObjJson} : Deliver(content, ROUTING_KEY_USER_CREATED)
    \/ Consume
    \/ \E s \in Slots, id \in OrderIds :
          nreq < MaxAdmissions /\ PostOrder(s, "u1", ValidItems, ValidTotal, id)
    \/ \E s \in Slots, outcome \in FireOutcomes, id \in OrderIds : FireSettle(s, outcome, id)
    \/ \E s \in Slots, dbOk \in BOOLEAN : DbCreate(s, dbOk)
    \/ \E s \in Slots, publishOk \in BOOLEAN : CreateResume(s, publishOk)
    \/ \E s \in Slots, id \in OrderIds, dbOk \in BOOLEAN :
          nreq < MaxAdmissions /\ CancelOrder(s, id, dbOk)
    \/ \E s \in Slots, publishOk \in BOOLEAN : CancelResume(s, publishOk)
    \/ \E s \in Slots : nreq < MaxAdmissions /\ ListOrders(s)
    \/ \E s \in Slots, dbOk \in BOOLEAN : ListResume(s, dbOk)
    \/ \E s \in Slots : nreq < MaxAdmissions /\ Health(s)

SpecCache == Init /\ [][NextCache]_vars

\* Admission of orders: the consumer, the breaker and order creation, for
\* every shape of body with the total of the tests.
NextAdmission ==
    \/ \E consumerOk \in BOOLEAN : AmqpConnect(consumerOk)
    \/ Deliver(AnaJson, ROUTING_KEY_USER_CREATED)
    \/ Consume
    \/ \E s \in Slots, userId \in UserIdInputs, items \in ItemsInputs, id \in OrderIds :
          nreq < MaxAdmissions /\ PostOrder(s, userId, items, ValidTotal, id)
    \/ \E s \in Slots, outcome \in FireOutcomes, id \in OrderIds : FireSettle(s, outcome, id)
    \/ \E s \in Slots, dbOk \in BOOLEAN : DbCreate(s, dbOk)
    \/ \E s \in Slots, publishOk \in BOOLEAN : CreateResume(s, publishOk)
    \/ ResetTimeout

SpecAdmission == Init /\ [][NextAdmission]_vars

\* The order lifecycle: creation, cancellation and their events, for one
\* well-formed order body and with no registry event consumed (an order is
\* admitted by the live check only).
NextLifecycle ==
    \/ \E consumerOk \in BOOLEAN : AmqpConnect(consumerOk)
    \/ \E s \in Slots, id \in OrderIds : PostOrder(s, "u1", ValidItems, ValidTotal, id)
    \/ \E s \in Slots, outcome \in FireOutcomes, id \in OrderIds : FireSettle(s, outcome, id)
    \/ \E s \in Slots, dbOk \in BOOLEAN : DbCreate(s, dbOk)
    \/ \E s \in Slots, publishOk \in BOOLEAN : CreateResume(s, publishOk)
    \/ \E s \in Slots, id \in OrderIds, dbOk \in BOOLEAN : CancelOrder(s, id, dbOk)
    \/ \E s \in Slots, publishOk \in BOOLEAN : CancelResume(s, publishOk)
    \/ ResetTimeout
    \/ Tick

SpecLifecycle == Init /\ [][NextLifecycle]_vars

\* The breaker under concurrent order requests for one user, with no
\* registry event consumed and no bus channel.
NextBreaker ==
    \/ \E s \in Callers, id \in OrderIds : PostOrder(s, "u1", ValidItems, ValidTotal, id)
    \/ \E s \in Callers, outcome \in FireOutcomes, id \in OrderIds : FireSettle(s, outcome, id)
    \/ \E s \in Callers, outcome \in {"ok", "upstream"} : LateCompletion(s, outcome)
    \/ \E s \in Callers, dbOk \in BOOLEAN : DbCreate(s, dbOk)
    \/ \E s \in Callers, publishOk \in BOOLEAN : CreateResume(s, publishOk)
    \/ ResetTimeout
    \/ WindowRoll

SpecBreaker == Init /\ [][NextBreaker]_vars

\* The breaker with time passing: every call let through settles (by the
\* timeout of the breaker at the latest) and the reset timer fires.
SpecBreakerFair ==
    /\ SpecBreaker
    /\ WF_vars(ResetTimeout)
    /\ \A s \in Callers :
          WF_vars(\E outcome \in FireOutcomes, id \in OrderIds : FireSettle(s, outcome, id))

\* The users service alone.
NextUsers ==
    \/ UsersAmqpConnect
    \/ \E s \in UserSlots, name \in NameInputs, email \in EmailInputs,
          id \in UserIds, dbOk \in BOOLEAN : UserPost(s, name, email, id, dbOk)
    \/ \E s \in UserSlots, id \in UserIds, name \in NameInputs, email \in EmailInputs,
          dbOk \in BOOLEAN : UserPut(s, id, name, email, dbOk)
    \/ \E s \in UserSlots, publishOk \in BOOLEAN : UserResume(s, publishOk)

SpecUsers == Init /\ [][NextUsers]_vars

\* The intake of orders: every shape of body, with a registry that may fail.
NextIntake ==
    \/ \E s \in Slots, userId \in UserIdInputs, items \in ItemsInputs,
          total \in TotalInputs, id \in OrderIds : PostOrder(s, userId, items, total, id)
    \/ \E s \in Slots, outcome \in FireOutcomes, id \in OrderIds : FireSettle(s, outcome, id)
    \/ \E s \in Slots, dbOk \in BOOLEAN : DbCreate(s, dbOk)
    \/ \E s \in Slots, publishOk \in BOOLEAN : CreateResume(s, publishOk)

SpecIntake == Init /\ [][NextIntake]_vars

(***************************************************************************)
(* Properties of the consumer (checked under SpecConsumer).                *)
(***************************************************************************)
\* The step in which the callback settles the message at the head of the queue.
Consumed ==
    /\ queue # <<>>
    /\ deliveries'[Head(queue).tag].outcome # deliveries[Head(queue).tag].outcome

AnyMessage == [tag : {0}, content : Contents, routingKey : RoutingKeys]

\* C3: whatever events were applied and re-applied, the snapshot cached for
\* a user is the payload of the last user-created/user-updated event applied
\* for that user, and applying any event a second time in a row changes
\* nothing more than applying it once.
C3_LastAppliedWins ==
    /\ \A u \in UserIds :
          lastApplied[u] # "none" =>
             /\ MapHas(userCache, u)
             /\ userCache[u] = UserObject(JSONparse(lastApplied[u]))
    /\ \A msg \in AnyMessage :
          LET once == ConsumeTry(userCache, msg)
              twice == ConsumeTry(once.cache, msg)
          IN twice = once

\* Ana's user-created event was applied, then Bob's user-updated event for
\* the same user: the cache holds Bob.
C3_Witness ==
    /\ MaxMsgs >= 2
    /\ deliveries[1] = [content |-> AnaJson, routingKey |-> ROUTING_KEY_USER_CREATED,
                        outcome |-> "ack"]
    /\ deliveries[2] = [content |-> BobJson, routingKey |-> ROUTING_KEY_USER_UPDATED,
                        outcome |-> "ack"]
    /\ MapHas(userCache, "u1") /\ userCache["u1"].name = "Bob"

\* C6: a message whose payload fails to decode is rejected without requeue
\* and leaves the cache as it was; it is off the queue, and no settled
\* message is ever on the queue again.
C6_PoisonDiscarded ==
    [][/\ (Consumed /\ ~JSONparse(Head(queue).content).ok) =>
            /\ deliveries'[Head(queue).tag].outcome = "nack_discard"
            /\ \A i \in DOMAIN queue' : queue'[i].tag # Head(queue).tag
            /\ userCache' = userCache
       /\ \A i \in DOMAIN queue' : deliveries'[queue'[i].tag].outcome = "none"]_vars

\* A malformed message was discarded and the message behind it consumed.
C6_Witness ==
    /\ MaxMsgs >= 2
    /\ deliveries[1].content = BadJson
    /\ deliveries[1].outcome = "nack_discard"
    /\ deliveries[2].outcome = "ack"
    /\ queue = <<>>

\* C7: a message that decodes but whose processing throws is requeued.
C7_FaultRequeued ==
    \A t \in Tags :
       (JSONparse(deliveries[t].content).ok
        /\ deliveries[t].outcome \in {"nack_discard", "nack_requeue"})
          => deliveries[t].outcome = "nack_requeue"

\* C8: a message that decodes and whose routing key is neither user-created
\* nor user-updated is acknowledged and leaves the cache as it was.
C8_UnknownKindAcked ==
    [][(/\ Consumed
        /\ JSONparse(Head(queue).content).ok
        /\ Head(queue).routingKey \notin {ROUTING_KEY_USER_CREATED, ROUTING_KEY_USER_UPDATED})
          => /\ deliveries'[Head(queue).tag].outcome = "ack"
             /\ userCache' = userCache]_vars

\* A user payload arrived under another routing key and was acknowledged
\* without being cached.
C8_Witness ==
    \E t \in Tags :
       /\ deliveries[t] = [content |-> AnaJson, routingKey |-> ORDER_CREATED, outcome |-> "ack"]
       /\ ~MapHas(userCache, "u1")

\* C25: a message the callback has run on got one settlement call, an ack
\* or a nack and not both; a message it has not run on got none.
C25_SettledOnce ==
    \A t \in Tags :
       IF deliveries[t].outcome = "none"
       THEN settles[t] = [acks |-> 0, nacks |-> 0]
       ELSE /\ settles[t].acks + settles[t].nacks = 1
            /\ settles[t].acks = 1 <=> deliveries[t].outcome = "ack"

\* The callback ran on a message it acknowledged and on one whose
\* processing threw after the payload was decoded.
C25_Witness ==
    \E t, u \in Tags :
       /\ deliveries[t].content = NullJson /\ deliveries[t].outcome = "nack_discard"
       /\ settles[t] = [acks |-> 0, nacks |-> 1]
       /\ settles[u] = [acks |-> 1, nacks |-> 0]

\* C26: every key of the cache is the id of a user: an event whose payload
\* decodes to an object without id adds no entry.
C26_KeysAreUserIds ==
    \A k \in DOMAIN userCache : k \in UserIds

\* The message of tag t is a user-created or user-updated event whose
\* payload decodes to a user with an id.
WellFormedUserEvent(t) ==
    /\ deliveries[t].routingKey \in {ROUTING_KEY_USER_CREATED, ROUTING_KEY_USER_UPDATED}
    /\ JSONparse(deliveries[t].content).ok
    /\ JSONparse(deliveries[t].content).id \in UserIds

\* The tag of the last well-formed event placed on the queue for user u
\* (0 when there is none).
LastEventFor(u) ==
    LET ts == {t \in Tags : WellFormedUserEvent(t) /\ JSONparse(deliveries[t].content).id = u}
    IN IF ts = {} THEN 0 ELSE CHOOSE t \in ts : \A x \in ts : x <= t

\* The cache holds, for every user, the payload of the last well-formed
\* event placed on the queue for that user.
Converged ==
    \A u \in UserIds :
       LastEventFor(u) # 0 =>
          /\ MapHas(userCache, u)
          /\ userCache[u] = UserObject(JSONparse(deliveries[LastEventFor(u)].content))

\* C23 (under SpecConsumerFair): with the callback registered, every
\* well-formed user event on the queue is eventually acknowledged with its
\* user in the cache, the queue is eventually drained, and whenever it is
\* drained the cache holds for each user the payload of the last event
\* placed on the queue for it.
C23_EventuallyApplied ==
    /\ \A t \in Tags :
          (consuming /\ WellFormedUserEvent(t)) ~>
             (/\ deliveries[t].outcome = "ack"
              /\ MapHas(userCache, JSONparse(deliveries[t].content).id))
    /\ consuming ~> (queue = <<>>)
    /\ [](queue = <<>> => Converged)

\* Bob's user-created event, then Ana's user-updated event for the same
\* user, were both acknowledged; the queue is drained and the cache holds Ana.
C23_Witness ==
    /\ MaxMsgs >= 2
    /\ deliveries[1] = [content |-> BobJson, routingKey |-> ROUTING_KEY_USER_CREATED,
                        outcome |-> "ack"]
    /\ deliveries[2] = [content |-> AnaJson, routingKey |-> ROUTING_KEY_USER_UPDATED,
                        outcome |-> "ack"]
    /\ queue = <<>>
    /\ Converged /\ userCache["u1"].name = "Ana"

(***************************************************************************)
(* Properties of the admission of orders (checked under SpecAdmission).    *)
(***************************************************************************)
Failures == {"CIRCUIT_OPEN", "upstream", "timeout"}

\* The request was answered 503.
Rejected(r) == r.pc = "done" /\ r.status = 503

\* The request went on to prisma.order.create.
Admitted(r) ==
    \/ r.pc \in {"create", "created"}
    \/ r.pc = "done" /\ r.status \in {201, 500}

\* C1: a request with a valid body is admitted when the live check
\* succeeded, whatever the cache held; admitted when the check failed and
\* the user id was in the cache; rejected when the check failed and the user
\* id was not in the cache; and this for each kind of failure alike.
C1_Verdict ==
    \A s \in Slots :
       LET r == reqs[s] IN
       /\ (r.op = "create" /\ r.pc # "fire" /\ ~(r.pc = "done" /\ r.status = 400))
             => r.fire \in Failures \cup {"ok"}
       /\ r.fire = "ok" => Admitted(r) /\ ~Rejected(r)
       /\ \A f \in Failures :
             /\ (r.fire = f /\ r.cacheHit) => Admitted(r) /\ ~Rejected(r)
             /\ (r.fire = f /\ ~r.cacheHit) => Rejected(r) /\ ~Admitted(r)

\* The open breaker short-circuited the check and the request was admitted
\* from the cache.
C1_Witness ==
    \E s \in Slots :
       /\ reqs[s].fire = "CIRCUIT_OPEN" /\ reqs[s].cacheHit
       /\ reqs[s].pc = "create"
       /\ breaker.state = "open"

\* C2: a row enters the order table, in state created, only from a request
\* whose live check succeeded or whose user id was in the cache when it was
\* checked; the step that answers 503 stores nothing and publishes nothing,
\* and that request never reached prisma.order.create.
C2_StoredOnlyIfAdmitted ==
    [][/\ \A id \in OrderIds :
             (id \notin DOMAIN orders /\ id \in DOMAIN orders') =>
                \E s \in Slots :
                   /\ reqs[s].pc = "create" /\ reqs[s].id = id
                   /\ (reqs[s].fire = "ok" \/ reqs[s].cacheHit)
                   /\ orders'[id].status = "created"
                   /\ orders'[id].userId = reqs[s].userId
       /\ \A s \in Slots :
             (reqs'[s] # reqs[s] /\ Rejected(reqs'[s])) =>
                /\ orders' = orders
                /\ published' = published
                /\ reqs'[s].id = ""]_vars

\* An order was stored for a request whose live check timed out and whose
\* user was in the cache.
C2_Witness ==
    \E s \in Slots :
       /\ reqs[s].pc = "created"
       /\ reqs[s].fire = "timeout" /\ reqs[s].cacheHit
       /\ reqs[s].id \in DOMAIN orders
       /\ orders[reqs[s].id].status = "created"

(***************************************************************************)
(* Properties of the order lifecycle (checked under SpecLifecycle).        *)
(***************************************************************************)
\* The step in which slot s takes a cancel request and its update executes.
CancelArrives(s) ==
    /\ reqs[s].pc \in {"idle", "done"}
    /\ reqs'[s] # reqs[s]
    /\ reqs'[s].op = "cancel"

CancelledEvents(log, id) ==
    {i \in DOMAIN log : log[i].routingKey = ORDER_CANCELLED /\ log[i].orderId = id}

\* C4: the status of an order goes from created to cancelled only, and
\* once: a cancel request on an order already cancelled changes no stored
\* state and emits no event, so no order has two order-cancelled events.
C4_CancelOnce ==
    [][/\ \A id \in DOMAIN orders :
             /\ id \in DOMAIN orders'
             /\ orders[id].status = "cancelled" => orders'[id].status = "cancelled"
       /\ \A s \in Slots :
             (/\ CancelArrives(s)
              /\ reqs'[s].id \in DOMAIN orders
              /\ orders[reqs'[s].id].status = "cancelled")
                => orders' = orders
       /\ \A id \in OrderIds : Cardinality(CancelledEvents(published', id)) <= 1]_vars

\* C5: a cancel request for an id that is not in the store leaves the store
\* and the published events as they were and is answered 404 (500 when the
\* update fails for another reason than the missing row).
C5_CancelUnknown ==
    [][\A s \in Slots :
          (CancelArrives(s) /\ reqs'[s].id \notin DOMAIN orders) =>
             /\ orders' = orders
             /\ published' = published
             /\ reqs'[s].pc = "done"
             /\ reqs'[s].status = IF reqs'[s].db = "fault" THEN 500 ELSE 404]_vars

\* A cancel for an id that is not in the store was answered 404 while the
\* store holds another order.
C5_Witness ==
    \E s \in Slots :
       /\ reqs[s].op = "cancel" /\ reqs[s].pc = "done" /\ reqs[s].status = 404
       /\ reqs[s].id \notin DOMAIN orders
       /\ DOMAIN orders # {}

\* C9: when an event is published the store already holds the change it
\* reports: the order of an order-created event is stored, the order of an
\* order-cancelled event is stored with status cancelled.
C9_PublishAfterRecord ==
    [][published' # published =>
          LET e == published'[Len(published')] IN
          /\ published' = Append(published, e)
          /\ orders' = orders
          /\ e.orderId \in DOMAIN orders
          /\ e.routingKey \in {ORDER_CREATED, ORDER_CANCELLED}
          /\ e.routingKey = ORDER_CREATED => e.status = "created"
          /\ e.routingKey = ORDER_CANCELLED =>
                e.status = "cancelled" /\ orders[e.orderId].status = "cancelled"]_vars

\* Both events of one order were published, order-created first.
C9_Witness ==
    \E id \in OrderIds :
       /\ Len(published) = 2
       /\ published[1] = [routingKey |-> ORDER_CREATED, orderId |-> id, status |-> "created"]
       /\ published[2] = [routingKey |-> ORDER_CANCELLED, orderId |-> id, status |-> "cancelled"]
       /\ orders[id].status = "cancelled"

\* C10: when the publication fails (publish threw, or there is no channel)
\* the request is answered with its success status, 201 or 200, and the
\* store keeps the order as the request left it.
C10_PublishFailureSwallowed ==
    [][\A s \in Slots :
          (/\ reqs[s].pc \in {"created", "updated"}
           /\ reqs'[s].pc = "done"
           /\ reqs'[s].pub \in {"threw", "no_channel"})
             => /\ reqs'[s].status = IF reqs[s].op = "create" THEN 201 ELSE 200
                /\ published' = published
                /\ orders' = orders
                /\ reqs[s].id \in DOMAIN orders
                /\ reqs[s].op = "cancel" => orders[reqs[s].id].status = "cancelled"]_vars

\* publish threw in a cancel request: it was answered 200 and the order is
\* cancelled.
C10_Witness ==
    \E s \in Slots :
       /\ reqs[s].pc = "done" /\ reqs[s].op = "cancel"
       /\ reqs[s].pub = "threw" /\ reqs[s].status = 200
       /\ orders[reqs[s].id].status = "cancelled"

\* C27: when prisma.order.create rejects, the step stores no order and
\* publishes nothing, and the request ends there, answered 500.
C27_CreateFaultAnswers500 ==
    [][\A s \in Slots :
          (reqs[s].pc = "create" /\ reqs'[s].pc # "create" /\ orders' = orders) =>
             /\ reqs'[s].pc = "done"
             /\ reqs'[s].status = 500
             /\ reqs'[s].pub = "none"
             /\ published' = published]_vars

\* The live check succeeded and the create failed: the request was
\* answered 500, the table is empty and nothing was published.
C27_Witness ==
    \E s \in Slots :
       /\ reqs[s].op = "create" /\ reqs[s].pc = "done" /\ reqs[s].status = 500
       /\ reqs[s].fire = "ok" /\ reqs[s].db = "fault"
       /\ orders = <<>> /\ published = <<>>

(***************************************************************************)
(* Properties of the validation path (checked under SpecAdmission).        *)
(***************************************************************************)
\* C15: a request sends at most one request to the registry: none when the
\* breaker short-circuits, one when the breaker lets the call through; and
\* when that one call fails the verdict is the cache lookup, with no further
\* call.
C15_NoRetry ==
    \A s \in Slots :
       LET r == reqs[s] IN
       /\ r.calls <= 1
       /\ r.fire = "CIRCUIT_OPEN" => r.calls = 0
       /\ (r.pc = "fire" \/ r.fire \in {"ok", "upstream", "timeout"}) => r.calls = 1
       /\ r.fire \in {"upstream", "timeout"} =>
             /\ Admitted(r) <=> r.cacheHit
             /\ Rejected(r) <=> ~r.cacheHit

\* The registry answered an error: the request was rejected after a single
\* call, the user not being in the cache.
C15_Witness ==
    \E s \in Slots :
       /\ reqs[s].pc = "done" /\ reqs[s].status = 503
       /\ reqs[s].fire = "upstream" /\ reqs[s].calls = 1
       /\ ~reqs[s].cacheHit

\* C16: the cache holds every user for whom a user-created or user-updated
\* event was applied and never loses a user; a well-formed request that
\* arrives when the cache holds its user is admitted, whether the live check
\* succeeds, fails, times out or is short-circuited.
C16_SeenUserAdmitted ==
    [][/\ \A u \in UserIds :
             /\ lastApplied'[u] # "none" => MapHas(userCache', u)
             /\ MapHas(userCache, u) => MapHas(userCache', u)
       /\ \A s \in Slots :
             reqs'[s].before =>
                /\ reqs'[s].pc = "fire" \/ Admitted(reqs'[s])
                /\ ~Rejected(reqs'[s])]_vars

\* The event of user u1 was consumed; a later request for u1 met an open
\* breaker and its order was stored.
C16_Witness ==
    \E s \in Slots :
       /\ lastApplied["u1"] # "none"
       /\ reqs[s].before /\ reqs[s].fire = "CIRCUIT_OPEN"
       /\ reqs[s].breakerWas = "open"
       /\ reqs[s].pc = "done" /\ reqs[s].status = 201

\* The step in which the live check of slot s fails and the handler looks
\* the user up in the cache.
FailedCheckSettles(s) ==
    /\ reqs[s].pc = "fire"
    /\ reqs'[s].pc # "fire"
    /\ reqs'[s].fire \in {"upstream", "timeout"}

\* C20: the lookup of a request whose live check failed sees the cache as
\* it was when the request arrived or as the events consumed meanwhile left
\* it, and the verdict is the one of that snapshot; a consumed event changes
\* the cache in one step, to the whole snapshot of its user, and changes no
\* verdict already given.
C20_SnapshotVerdict ==
    [][/\ \A s \in Slots :
             FailedCheckSettles(s) =>
                /\ reqs'[s].cacheHit \in {reqs[s].before, MapHas(userCache', reqs[s].userId)}
                /\ Admitted(reqs'[s]) <=> reqs'[s].cacheHit
                /\ Rejected(reqs'[s]) <=> ~reqs'[s].cacheHit
       /\ userCache' # userCache =>
             /\ reqs' = reqs
             /\ \E u \in UserIds :
                   userCache' = MapSet(userCache, u, UserObject(JSONparse(lastApplied'[u])))]_vars

\* The user was not in the cache when the request arrived; the event was
\* consumed while the live check was in flight, the check timed out and the
\* request was admitted from the cache.
C20_Witness ==
    \E s \in Slots :
       /\ reqs[s].pc = "create"
       /\ reqs[s].fire = "timeout"
       /\ ~reqs[s].before /\ reqs[s].cacheHit

(***************************************************************************)
(* Properties of the intake of orders (checked under SpecIntake).          *)
(***************************************************************************)
\* C17: the total of every stored order is a number that is not negative.
C17_TotalNonNegative ==
    \A id \in DOMAIN orders : orders[id].total >= 0

(***************************************************************************)
(* Properties of the users service (checked under SpecUsers).              *)
(***************************************************************************)
\* The step in which slot s takes a request to create a user and its
\* prisma.user.create executes.
UserPostArrives(s) ==
    /\ nureq' = nureq + 1
    /\ ureqs'[s].n = nureq'
    /\ ureqs'[s].op = "post"

\* C18: a request to create a user, with a name and with an email that a
\* stored user has, is answered 409 (500 when the create fails for another reason than the
\* email), stores no user and publishes nothing; no two stored users share
\* an email; and the user of every user.created event is stored.
C18_DuplicateEmailConflict ==
    [][/\ \A s \in UserSlots :
             (/\ UserPostArrives(s)
              /\ ~UserInvalidBody(ureqs'[s].name, ureqs'[s].email)
              /\ \E k \in DOMAIN usersDb : usersDb[k].email = ureqs'[s].email)
                => /\ ureqs'[s].pc = "done"
                   /\ ureqs'[s].status = IF ureqs'[s].db = "fault" THEN 500 ELSE 409
                   /\ usersDb' = usersDb
                   /\ userEvents' = userEvents
       /\ \A j, k \in DOMAIN usersDb' :
             usersDb'[j].email = usersDb'[k].email => j = k
       /\ \A i \in DOMAIN userEvents' :
             userEvents'[i].routingKey = USER_CREATED =>
                userEvents'[i].id \in DOMAIN usersDb']_vars

\* A user was created and its event published; a second request with the
\* same email was answered 409 and the table holds one user.
C18_Witness ==
    \E s \in UserSlots :
       /\ ureqs[s].op = "post" /\ ureqs[s].pc = "done" /\ ureqs[s].status = 409
       /\ Cardinality(DOMAIN usersDb) = 1
       /\ \E k \in DOMAIN usersDb : usersDb[k].email = ureqs[s].email
       /\ Len(userEvents) = 1 /\ userEvents[1].routingKey = USER_CREATED

\* C28: a create request whose body has no userId, or items that are not
\* an array, or a total that is not a number, ends in its first step with
\* 400: the breaker is not fired, nothing is sent to the registry, and the
\* order table and the published events stay as they were.
C28_InvalidBodyRejectedFirst ==
    [][\A s \in Slots, userId \in UserIdInputs, items \in ItemsInputs,
          total \in TotalInputs, id \in OrderIds :
          (/\ userId = "" \/ items.type # "array" \/ total.type # "number"
           /\ PostOrder(s, userId, items, total, id))
             => /\ reqs'[s].pc = "done" /\ reqs'[s].status = 400
                /\ reqs'[s].fire = "none" /\ reqs'[s].calls = 0
                /\ breaker' = breaker
                /\ orders' = orders
                /\ published' = published]_vars

\* A request was answered 400 and the breaker has counted no call.
C28_Witness ==
    \E s \in Slots :
       /\ reqs[s].op = "create" /\ reqs[s].pc = "done" /\ reqs[s].status = 400
       /\ nreq = 1
       /\ breaker.fires = 0
       /\ orders = <<>> /\ published = <<>>

(***************************************************************************)
(* Properties of the breaker (checked under SpecBreaker).                  *)
(***************************************************************************)
\* The calls the breaker let through and that have not settled.
InFlight(rs) == {s \in DOMAIN rs : rs[s].pc = "fire"}

\* The step in which a request arrives and the breaker short-circuits it:
\* one slot takes the answer CIRCUIT_OPEN with no request sent to the
\* registry, no call is let through, and the window counts nothing but the
\* fire.
ShortCircuited ==
    /\ InFlight(reqs') = InFlight(reqs)
    /\ \E s \in DOMAIN reqs :
          /\ reqs[s].pc \in {"idle", "done"}
          /\ reqs'[s].fire = "CIRCUIT_OPEN" /\ reqs'[s].calls = 0
          /\ reqs'[s].breakerWas = breaker.state
          /\ \A t \in DOMAIN reqs \ {s} : reqs'[t] = reqs[t]
    /\ breaker' = [breaker EXCEPT !.fires = @ + 1]

\* C11: a validation call made while the breaker is open is answered
\* CIRCUIT_OPEN and the live user check is not invoked.
C11_OpenShortCircuits ==
    [][(nreq' = nreq + 1 /\ breaker.state = "open") => ShortCircuited]_vars

\* A request arrived while the breaker was open: it was answered 503 with
\* CIRCUIT_OPEN and sent nothing to the registry.
C11_Witness ==
    \E s \in Callers :
       /\ reqs[s].pc = "done" /\ reqs[s].status = 503
       /\ reqs[s].fire = "CIRCUIT_OPEN" /\ reqs[s].breakerWas = "open"
       /\ reqs[s].calls = 0
       /\ breaker.state = "open"

\* C12: the breaker leaves closed for open only when the failures are at
\* least the threshold percentage of the calls of the window and the window
\* holds more than a single call: one failed call on a fresh breaker does not
\* open it.
C12_OpensOnlyPastFloor ==
    [][(breaker.state = "closed" /\ breaker'.state = "open") =>
          /\ breaker'.failures * 100 >= errorThresholdPercentage * breaker'.fires
          /\ breaker'.fires > 1]_vars

\* C13: while the breaker is half-open at most one call is in flight, the
\* probe; the first call after the cool-down is let through, and a call that
\* arrives while the probe is in flight is short-circuited.
C13_OneProbe ==
    [][/\ breaker'.state = "halfOpen" =>
            /\ Cardinality(InFlight(reqs')) = IF breaker'.pendingClose THEN 0 ELSE 1
            /\ \A s \in InFlight(reqs') : reqs'[s].breakerWas = "halfOpen"
       /\ (nreq' = nreq + 1 /\ breaker.state = "halfOpen") =>
            IF breaker.pendingClose
            THEN /\ Cardinality(InFlight(reqs')) = 1
                 /\ \A s \in InFlight(reqs') : reqs'[s].calls = 1
                 /\ breaker'.state = "halfOpen" /\ ~breaker'.pendingClose
            ELSE ShortCircuited]_vars

\* The probe is in flight and another request, arrived meanwhile, was
\* short-circuited.
C13_Witness ==
    \E s, t \in Callers :
       /\ breaker.state = "halfOpen"
       /\ reqs[s].pc = "fire" /\ reqs[s].breakerWas = "halfOpen"
       /\ reqs[t].pc = "done" /\ reqs[t].fire = "CIRCUIT_OPEN"
       /\ reqs[t].breakerWas = "halfOpen" /\ reqs[t].calls = 0

\* The step in which the half-open probe in slot s settles.
ProbeSettles(s) ==
    /\ reqs[s].pc = "fire" /\ reqs[s].breakerWas = "halfOpen"
    /\ reqs'[s].pc # "fire"

\* What the settling of the probe in slot s does to the breaker.
ProbeVerdict(s) ==
    /\ ~breaker'.pendingClose
    /\ reqs'[s].fire = "ok" => breaker'.state = "closed"
    /\ reqs'[s].fire \in {"upstream", "timeout"} => breaker'.state = "open"

\* C14: the half-open breaker closes when its probe succeeds and opens again
\* when its probe fails or times out; nothing else takes it out of half-open,
\* and the open breaker is left only by the cool-down, for half-open again.
C14_ProbeDecides ==
    [][/\ \A s \in DOMAIN reqs : ProbeSettles(s) => ProbeVerdict(s)
       /\ (breaker.state = "halfOpen" /\ breaker'.state # "halfOpen") =>
             \E s \in DOMAIN reqs : ProbeSettles(s)
       /\ (breaker.state = "open" /\ breaker'.state # "open") =>
             breaker'.state = "halfOpen" /\ breaker'.pendingClose]_vars

\* The probe timed out and the breaker is open again.
C14_Witness ==
    \E s \in Callers :
       /\ reqs[s].pc = "done" /\ reqs[s].breakerWas = "halfOpen"
       /\ reqs[s].fire = "timeout"
       /\ breaker.state = "open"

\* The calls that settle in this step with one of the given outcomes.
Settling(outcomes) ==
    {s \in DOMAIN reqs :
        reqs[s].pc = "fire" /\ reqs'[s].pc # "fire" /\ reqs'[s].fire \in outcomes}

\* C19: in every step but the roll of the window, the successes of the
\* window grow by the calls that succeed in the step and its failures by the
\* calls that fail or time out in it, one call at a time; the completion of a
\* call that had timed out changes nothing of the breaker.
C19_RecordedOnce ==
    [][/\ breaker'.fires >= breaker.fires =>
            /\ breaker'.successes = breaker.successes + Cardinality(Settling({"ok"}))
            /\ breaker'.failures =
                  breaker.failures + Cardinality(Settling({"upstream", "timeout"}))
            /\ Cardinality(Settling(FireOutcomes)) <= 1
       /\ \A s \in DOMAIN reqs :
             (reqs[s].late /\ reqs' = [reqs EXCEPT ![s].late = FALSE]) =>
                breaker' = breaker]_vars

\* Two calls were in flight together: one timed out, the other succeeded,
\* and the fetch of the first completed afterwards; the window counts one
\* failure and one success.
C19_Witness ==
    \E s, t \in Callers :
       /\ reqs[s].fire = "timeout" /\ ~reqs[s].late /\ reqs[s].pc = "done"
       /\ reqs[t].fire = "ok" /\ reqs[t].breakerWas = "closed"
       /\ breaker.fires = 2 /\ breaker.successes = 1 /\ breaker.failures = 1

(***************************************************************************)
(* Properties of the cache among the handlers (checked under SpecCache).   *)
(***************************************************************************)
\* C21: a key of the cache stays a key of the cache in every step, whether
\* the step consumes a message or handles a request.
C21_CacheKeepsKeys ==
    [][\A k \in DOMAIN userCache : k \in DOMAIN userCache']_vars

\* The cache holds the keys of two consumed events and requests were
\* handled meanwhile.
C21_Witness ==
    /\ MapHas(userCache, "u1") /\ MapHas(userCache, Undefined)
    /\ \E s \in Slots : reqs[s].pc = "done" /\ reqs[s].op = "cancel"

\* C24: the cache changes only in a step of the consume callback; a step
\* that takes or advances a request (create, cancel, list, health) leaves the
\* cache as it was; a step of the consume callback leaves the order table and
\* the published order events as they were.
C24_CacheWrittenByConsumer ==
    [][/\ userCache' # userCache => Consumed /\ reqs' = reqs /\ nreq' = nreq
       /\ (reqs' # reqs \/ nreq' # nreq) => userCache' = userCache
       /\ Consumed => orders' = orders /\ published' = published]_vars

\* An order is stored and its event published, the rows were listed, and
\* the cache holds the user of a consumed event.
C24_Witness ==
    /\ MapHas(userCache, "u1")
    /\ DOMAIN orders # {} /\ Len(published) = 1
    /\ \E s \in Slots : reqs[s].op = "list" /\ reqs[s].pc = "done" /\ reqs[s].status = 200

(***************************************************************************)
(* Progress of the breaker (checked under SpecBreakerFair).                *)
(***************************************************************************)
\* C22: the breaker leaves open only for half-open, in a step in which no
\* request arrives and no call settles; and an open breaker eventually is
\* half-open.
C22_CoolDownOnly ==
    /\ [][(breaker.state = "open" /\ breaker'.state # "open") =>
             /\ breaker'.state = "halfOpen"
             /\ reqs' = reqs /\ nreq' = nreq]_vars
    /\ (breaker.state = "open") ~> (breaker.state = "halfOpen")

\* One call failed and opened the breaker, and with no further request the
\* breaker is half-open, waiting for its probe.
C22_Witness ==
    /\ nreq = 1
    /\ breaker.state = "halfOpen" /\ breaker.pendingClose
    /\ breaker.failures = 1

====
